---- MODULE Spec2Model ----
(***************************************************************************)
(* A model of spring/task3/preprocessing.py: corpus extraction             *)
(* (extract_sentences), vocabulary construction (get_token_to_index) and   *)
(* tokenization (tokenize_sents).                                          *)
(*                                                                         *)
(* A Python str is a TLA+ string; a text that the code splits is a         *)
(* sequence of one-character strings.  A Python list is a sequence, a      *)
(* dict that is only looked up is a function, and a dict whose insertion   *)
(* order the code relies on is a sequence of (token, count) items.         *)
(***************************************************************************)
EXTENDS Integers, Sequences, FiniteSets, TLC

VARIABLES
    pc,              \* position of the vocabulary / tokenization pipeline
    sentence_pairs,  \* the corpus handed to get_token_to_index / tokenize_sents
    freq_cutoff,     \* None or a positive integer
    source_dict,     \* token -> index, source language
    target_dict,     \* token -> index, target language
    res,             \* the list returned by tokenize_sents
    ints,            \* history: source_ints, target_ints of each sentence
    calls,           \* the invocations of extract_sentences that take place
    cpc,             \* position of each invocation of extract_sentences
    infile,          \* content of the file each invocation is given
    s,               \* each invocation's local s: the escaped content
    new,             \* the file named 'new' in the working directory
    out,             \* what each invocation returned or raised
    alone            \* history: the invocation never overlapped another one

vars == <<pc, sentence_pairs, freq_cutoff, source_dict, target_dict, res, ints,
          calls, cpc, infile, s, new, out, alone>>

pipeVars == <<pc, sentence_pairs, freq_cutoff, source_dict, target_dict, res, ints>>
callVars == <<calls, cpc, infile, s, new, out, alone>>

\* None is the empty tuple and a value that may be None is a 1-tuple, so
\* that either compares with the other.
None == <<>>

Some(v) == <<v>>

\* ------------------------------------------------------------------ bounds

\* Longest corpus (number of sentence pairs) that is enumerated.
MaxSents == 2
\* Largest freq_cutoff that is enumerated.
MaxCutoff == 3
\* Largest number of child elements of a document's root.
MaxChildren == 2

\* ------------------------------------------------------------- small helpers

Range(f) == {f[x] : x \in DOMAIN f}

Min(a, b) == IF a <= b THEN a ELSE b

SeqsUpTo(S, n) == UNION {[1..k -> S] : k \in 0..n}

\* ----------------------------------------------------------- the data records

\* @dataclass SentencePair
SentencePair(source, target) == [source |-> source, target |-> target]

\* @dataclass TokenizedSentencePair
TokenizedSentencePair(source_tokens, target_tokens) ==
    [source_tokens |-> source_tokens, target_tokens |-> target_tokens]

\* @dataclass LabeledAlignment
LabeledAlignment(sure, possible) == [sure |-> sure, possible |-> possible]

\* ------------------------------------------------------- get_token_to_index

\* Variant: the membership test always fails, every occurrence is a new item.
CountTokenAlwaysNew(vocab, token) ==
    Append(vocab, [token |-> token, count |-> 1])

\* One pass of the counting loop's body: vocab[token] += 1 if the token is a
\* key, else vocab[token] = 1 (a new key goes last in insertion order).
CountToken(vocab, token) ==
    IF \E i \in 1..Len(vocab) : vocab[i].token = token
    THEN [i \in 1..Len(vocab) |->
             IF vocab[i].token = token
             THEN [vocab[i] EXCEPT !.count = @ + 1]
             ELSE vocab[i]]
    ELSE Append(vocab, [token |-> token, count |-> 1])

\* for token in sentense.<side>: ...
RECURSIVE CountSentence(_, _)
CountSentence(vocab, tokens) ==
    IF tokens = <<>> THEN vocab
    ELSE CountSentence(CountToken(vocab, Head(tokens)), Tail(tokens))

\* for sentense in sentence_pairs: ... (one language; the two counters do not
\* touch each other)
RECURSIVE CountCorpus(_, _, _)
CountCorpus(vocab, pairs, side) ==
    IF pairs = <<>> THEN vocab
    ELSE CountCorpus(CountSentence(vocab, Head(pairs)[side]), Tail(pairs), side)

\* Variant: an item goes before the items of its own count (ties reversed).
InsertBeforeTies(sorted, item) ==
    LET k == Cardinality({i \in 1..Len(sorted) : sorted[i].count > item.count})
    IN  SubSeq(sorted, 1, k) \o <<item>> \o SubSeq(sorted, k + 1, Len(sorted))

\* sorted(..., key=count, reverse=True) is stable: an item goes behind every
\* item whose count is at least its own, and items are taken in their order.
InsertByCount(sorted, item) ==
    LET k == Cardinality({i \in 1..Len(sorted) : sorted[i].count >= item.count})
    IN  SubSeq(sorted, 1, k) \o <<item>> \o SubSeq(sorted, k + 1, Len(sorted))

RECURSIVE SortedByCount(_, _)
SortedByCount(sorted, items) ==
    IF items = <<>> THEN sorted
    ELSE SortedByCount(InsertByCount(sorted, Head(items)), Tail(items))

\* list(vocab.keys())
Keys(vocab) == [i \in 1..Len(vocab) |-> vocab[i].token]

\* Variant: keys[:freq_cutoff + 1].
CutOneMore(keys, cutoff) ==
    IF cutoff = None THEN keys ELSE SubSeq(keys, 1, Min(cutoff[1] + 1, Len(keys)))

\* keys[:freq_cutoff] for a positive freq_cutoff, all the keys for None
Cut(keys, cutoff) ==
    IF cutoff = None THEN keys ELSE SubSeq(keys, 1, Min(cutoff[1], Len(keys)))

\* Variant: enumerate(keys, 1).
EnumerateFromOne(keys) ==
    [t \in Range(keys) |->
        CHOOSE it \in 1..Len(keys) :
            /\ keys[it] = t
            /\ \A j \in 1..Len(keys) : keys[j] = t => j <= it]

\* {token: it for it, token in enumerate(keys)}: a later item of a repeated
\* key would replace the earlier one.
Enumerate(keys) ==
    [t \in Range(keys) |->
        CHOOSE it \in 0..(Len(keys) - 1) :
            /\ keys[it + 1] = t
            /\ \A j \in 0..(Len(keys) - 1) : keys[j + 1] = t => j <= it]

\* One language of get_token_to_index.
TokenToIndex(pairs, side, cutoff) ==
    Enumerate(Cut(Keys(SortedByCount(<<>>, CountCorpus(<<>>, pairs, side))),
                  cutoff))

get_token_to_index(pairs, cutoff) ==
    <<TokenToIndex(pairs, "source", cutoff), TokenToIndex(pairs, "target", cutoff)>>

\* ------------------------------------------------------------ tokenize_sents

\* Variant: a token that is no key is skipped and the list is kept.
RECURSIVE TokenizeSideKeep(_, _, _)
TokenizeSideKeep(acc, tokens, dict) ==
    IF tokens = <<>> THEN acc
    ELSE IF Head(tokens) \in DOMAIN dict
         THEN TokenizeSideKeep(Append(acc, dict[Head(tokens)]), Tail(tokens), dict)
         ELSE TokenizeSideKeep(acc, Tail(tokens), dict)

\* for token in sentense.<side>: append the index, or start again from []
RECURSIVE TokenizeSide(_, _, _)
TokenizeSide(acc, tokens, dict) ==
    IF tokens = <<>> THEN acc
    ELSE IF Head(tokens) \in DOMAIN dict
         THEN TokenizeSide(Append(acc, dict[Head(tokens)]), Tail(tokens), dict)
         ELSE TokenizeSide(<<>>, Tail(tokens), dict)

\* Variant: if len(target_ints) or len(source_ints).
IncludedEither(source_ints, target_ints) ==
    Len(target_ints) # 0 \/ Len(source_ints) # 0

\* if len(target_ints) and len(source_ints)
Included(source_ints, target_ints) ==
    Len(target_ints) # 0 /\ Len(source_ints) # 0

\* The two lists of one sentence when its two inner loops have ended.
SentenceInts(sentense, sdict, tdict) ==
    [source_ints |-> TokenizeSide(<<>>, sentense.source, sdict),
     target_ints |-> TokenizeSide(<<>>, sentense.target, tdict)]

\* for sentense in sentence_pairs: ... res.append(token_sentence)
RECURSIVE TokenizeLoop(_, _, _, _)
TokenizeLoop(acc, pairs, sdict, tdict) ==
    IF pairs = <<>> THEN acc
    ELSE LET l == SentenceInts(Head(pairs), sdict, tdict)
         IN  TokenizeLoop(
                 IF Included(l.source_ints, l.target_ints)
                 THEN Append(acc, TokenizedSentencePair(l.source_ints, l.target_ints))
                 ELSE acc,
                 Tail(pairs), sdict, tdict)

tokenize_sents(pairs, sdict, tdict) == TokenizeLoop(<<>>, pairs, sdict, tdict)

\* --------------------------------------------------------- extract_sentences

\* What an evaluation gives: the value it returns, or the exception it raises.
Returned(value) == [raised |-> "", value |-> value]

Raised(exception) == [raised |-> exception, value |-> <<>>]

IsError(r) == r.raised # ""

\* Characters that str.split() treats as separators.
Whitespace == {" "}

\* Characters that int() reads as decimal digits, with their values.  (int()
\* also takes a sign, underscores and surrounding blanks; no text of the
\* model holds one.)
DigitValue == [c \in {"0", "1", "2", "3"} |->
                  CASE c = "0" -> 0 [] c = "1" -> 1 [] c = "2" -> 2 [] c = "3" -> 3]

Digits == DOMAIN DigitValue

\* s.replace('&', '&amp;') on the characters of one text.
RECURSIVE EscapeText(_)
EscapeText(text) ==
    IF text = <<>> THEN <<>>
    ELSE (IF Head(text) = "&" THEN <<"&", "a", "m", "p", ";">> ELSE <<Head(text)>>)
         \o EscapeText(Tail(text))

\* The replacement runs over the whole file; the markup around the texts
\* holds no '&', so it changes the texts and nothing else.
EscapeDocument(doc) ==
    [i \in 1..Len(doc) |-> [j \in 1..Len(doc[i]) |-> EscapeText(doc[i][j])]]

\* The parser's reading of character data: '&amp;' is '&'; a '&' that starts
\* no entity is not well-formed.
RECURSIVE UnescapeText(_, _)
UnescapeText(acc, text) ==
    IF text = <<>> THEN Returned(acc)
    ELSE IF Head(text) # "&"
         THEN UnescapeText(Append(acc, Head(text)), Tail(text))
         ELSE IF Len(text) >= 5 /\ SubSeq(text, 1, 5) = <<"&", "a", "m", "p", ";">>
              THEN UnescapeText(Append(acc, "&"), SubSeq(text, 6, Len(text)))
              ELSE Raised("ParseError")

\* Element.text: None for an element without character data.
ElementText(raw) ==
    IF raw = <<>> THEN Returned(None)
    ELSE LET text == UnescapeText(<<>>, raw)
         IN  IF IsError(text) THEN text ELSE Returned(Some(text.value))

\* Number of characters of a document written out: the root's tags, each
\* child's tags, each sub-element's tags (seven characters a pair here) and
\* the texts.
RECURSIVE SumLen(_)
SumLen(texts) == IF texts = <<>> THEN 0 ELSE 7 + Len(Head(texts)) + SumLen(Tail(texts))

RECURSIVE DocumentSize(_)
DocumentSize(doc) ==
    IF doc = <<>> THEN 7 ELSE 7 + SumLen(Head(doc)) + DocumentSize(Tail(doc))

\* open('new', 'w'): the file exists and is empty.
Truncated(file) == [size |-> 0, holds |-> "nothing", content |-> <<>>]

\* Variant: the file is parsed before the written characters reach it.
WrittenUnflushed(file, content) == file

\* file.write(s); file.close() through a descriptor opened at offset 0: the
\* characters of s replace the first len(s) characters of the file.  What a
\* longer file keeps behind them follows a complete document.
Written(file, content) ==
    IF DocumentSize(content) >= file.size
    THEN [size |-> DocumentSize(content), holds |-> "document", content |-> content]
    ELSE [size |-> file.size, holds |-> "garbage", content |-> <<>>]

\* str.split(): the maximal runs of non-blank characters, in order.
RECURSIVE SplitWhitespace(_, _, _)
SplitWhitespace(text, word, words) ==
    IF text = <<>>
    THEN IF word = <<>> THEN words ELSE Append(words, word)
    ELSE IF Head(text) \in Whitespace
         THEN SplitWhitespace(Tail(text), <<>>,
                              IF word = <<>> THEN words ELSE Append(words, word))
         ELSE SplitWhitespace(Tail(text), Append(word, Head(text)), words)

Split(text) == SplitWhitespace(text, <<>>, <<>>)

\* str.split('-'): the pieces between the separators, empty ones included.
RECURSIVE SplitOn(_, _, _, _)
SplitOn(text, sep, piece, pieces) ==
    IF text = <<>> THEN Append(pieces, piece)
    ELSE IF Head(text) = sep
         THEN SplitOn(Tail(text), sep, <<>>, Append(pieces, piece))
         ELSE SplitOn(Tail(text), sep, Append(piece, Head(text)), pieces)

\* The str of a list of characters.
RECURSIVE Str(_)
Str(chars) == IF chars = <<>> THEN "" ELSE Head(chars) \o Str(Tail(chars))

Strs(words) == [i \in 1..Len(words) |-> Str(words[i])]

\* int(): the number, or ValueError.
RECURSIVE IntValue(_, _)
IntValue(acc, chars) ==
    IF chars = <<>> THEN acc
    ELSE IntValue(10 * acc + DigitValue[Head(chars)], Tail(chars))

IsInt(chars) == chars # <<>> /\ \A i \in 1..Len(chars) : chars[i] \in Digits

int(chars) ==
    IF IsInt(chars) THEN Returned(IntValue(0, chars)) ELSE Raised("ValueError")

\* (int(s.split('-')[0]), int(s.split('-')[1])), evaluated left to right.
AlignmentPair(word) ==
    LET parts == SplitOn(word, "-", <<>>, <<>>)
        first == int(parts[1])
    IN  IF IsError(first) THEN first
        ELSE IF Len(parts) < 2 THEN Raised("IndexError")
        ELSE LET second == int(parts[2])
             IN  IF IsError(second) THEN second
                 ELSE Returned(<<first.value, second.value>>)

\* [... for s in text.split()]: the first exception ends the comprehension.
RECURSIVE AlignmentList(_, _)
AlignmentList(acc, words) ==
    IF words = <<>> THEN Returned(acc)
    ELSE LET pair == AlignmentPair(Head(words))
         IN  IF IsError(pair) THEN pair
             ELSE AlignmentList(Append(acc, pair.value), Tail(words))

\* sure / possible: [] unless the text is not None.
Alignments(text) ==
    IF text # None THEN AlignmentList(<<>>, Split(text[1])) ELSE Returned(<<>>)

\* token[i].text.split(): None has no split.
TextTokens(text) ==
    IF text = None THEN Raised("AttributeError")
    ELSE Returned(Strs(Split(text[1])))

\* The body of `for token in root`, for one child element.
ExtractChild(token) ==
    LET source == TextTokens(token[1])
    IN  IF IsError(source) THEN source ELSE
    LET target == TextTokens(token[2])
    IN  IF IsError(target) THEN target ELSE
    LET sure == Alignments(token[3])
    IN  IF IsError(sure) THEN sure ELSE
    LET possible == Alignments(token[4])
    IN  IF IsError(possible) THEN possible ELSE
        Returned([sentence |-> SentencePair(source.value, target.value),
                  alignment |-> LabeledAlignment(sure.value, possible.value)])

\* The loop over the root's children: an exception leaves the function, and
\* the lists built so far with it.
RECURSIVE ExtractLoop(_, _, _)
ExtractLoop(pairs, aligns, root) ==
    IF root = <<>> THEN Returned(<<pairs, aligns>>)
    ELSE LET e == ExtractChild(Head(root))
         IN  IF IsError(e) THEN e
             ELSE ExtractLoop(Append(pairs, e.value.sentence),
                              Append(aligns, e.value.alignment), Tail(root))

\* ET.parse('new').getroot(): the children of the root, each a tuple of its
\* sub-elements' texts; ParseError for a file that holds no document, a
\* document followed by more characters, or a '&' that starts no entity.
ParseTree(file) ==
    IF file.holds # "document" THEN Raised("ParseError")
    ELSE LET texts == [i \in 1..Len(file.content) |->
                         [j \in 1..Len(file.content[i]) |->
                             ElementText(file.content[i][j])]]
         IN  IF \E i \in 1..Len(texts) : \E j \in 1..Len(texts[i]) :
                    IsError(texts[i][j])
             THEN Raised("ParseError")
             ELSE Returned([i \in 1..Len(texts) |->
                               [j \in 1..Len(texts[i]) |-> texts[i][j].value]])

\* Lines 58-71: parse the file 'new' and extract.
ParseAndExtract(file) ==
    LET root == ParseTree(file)
    IN  IF IsError(root) THEN root ELSE ExtractLoop(<<>>, <<>>, root.value)

\* ------------------------------------------------------------------ inputs

SourceTokens == {"a", "b", "c"}

TargetTokens == {"x", "y"}

SourceSentences ==
    {<<>>, <<"a">>, <<"b", "a">>, <<"a", "b", "c">>, <<"c", "c", "b">>}

TargetSentences == {<<>>, <<"x">>, <<"x", "y">>}

Corpora ==
    SeqsUpTo({SentencePair(src, tgt) : src \in SourceSentences, tgt \in TargetSentences},
             MaxSents)

Cutoffs == {None} \cup {Some(k) : k \in 1..MaxCutoff}

\* Dictionaries a caller may hand to tokenize_sents: two numberings of the
\* tokens of each language, restricted to every subset of them.
Restrict(f, D) == [t \in D |-> f[t]]

SourceDicts ==
    {Restrict(f, D) :
        f \in {[t \in SourceTokens |-> CASE t = "a" -> 0 [] t = "b" -> 1 [] t = "c" -> 2],
               [t \in SourceTokens |-> CASE t = "a" -> 0 [] t = "b" -> 2 [] t = "c" -> 1]},
        D \in SUBSET SourceTokens}

TargetDicts ==
    {Restrict(f, D) :
        f \in {[t \in TargetTokens |-> CASE t = "x" -> 0 [] t = "y" -> 1],
               [t \in TargetTokens |-> CASE t = "x" -> 1 [] t = "y" -> 0]},
        D \in SUBSET TargetTokens}

\* Texts of the sub-elements of a child element, as they stand in the file.
SourceTexts == {<<>>, <<" ">>, <<"a", " ", "&">>}

TargetTexts == {<<>>, <<"x">>}

SureTexts ==
    {<<>>,
     <<"1", "-", "2", " ", "2", "-", "1">>,
     <<"1", "-", "2", "-", "3">>,
     <<"1", "-", "2", "-", "x">>,
     <<"1">>,
     <<"1", "-">>,
     <<"a", "-", "2">>}

PossibleTexts == {<<>>, <<"2", "-", "2">>, <<"1", "-">>}

Documents ==
    SeqsUpTo({<<a, b, c, d>> : a \in SourceTexts, b \in TargetTexts,
                               c \in SureTexts, d \in PossibleTexts},
             MaxChildren)

\* Documents for calls that run side by side: every text present and every
\* alignment token two integers.
PlainDocuments ==
    SeqsUpTo({<<<<"a">>, <<"x">>, <<"1", "-", "1">>, <<>>>>,
              <<<<"a">>, <<"x">>, <<>>, <<>>>>,
              <<<<"a", " ", "&">>, <<"x">>, <<"1", "-", "1">>, <<"2", "-", "1">>>>},
             MaxChildren)

Calls == {"A", "B"}

\* ----------------------------------------------------------- the state machine

NoFile == [size |-> 0, holds |-> "absent", content |-> <<>>]

NoCalls ==
    /\ calls = {}
    /\ cpc = [p \in Calls |-> "start"]
    /\ infile = [p \in Calls |-> <<>>]
    /\ s = [p \in Calls |-> <<>>]
    /\ new = NoFile
    /\ out = [p \in Calls |-> Returned(<<>>)]
    /\ alone = [p \in Calls |-> TRUE]

NoPipeline ==
    /\ pc = "idle"
    /\ sentence_pairs = <<>>
    /\ freq_cutoff = None
    /\ source_dict = <<>>
    /\ target_dict = <<>>
    /\ res = <<>>
    /\ ints = <<>>

\* A corpus and a cutoff; the vocabularies are built from it and it is then
\* tokenized with them.
Init ==
    /\ pc = "start"
    /\ sentence_pairs \in Corpora
    /\ freq_cutoff \in Cutoffs
    /\ source_dict = <<>>
    /\ target_dict = <<>>
    /\ res = <<>>
    /\ ints = <<>>
    /\ NoCalls

\* source_vocab, target_vocab = get_token_to_index(sentence_pairs, freq_cutoff)
CallGetTokenToIndex ==
    /\ pc = "start"
    /\ LET vocabs == get_token_to_index(sentence_pairs, freq_cutoff)
       IN  /\ source_dict' = vocabs[1]
           /\ target_dict' = vocabs[2]
    /\ pc' = "vocab"
    /\ UNCHANGED <<sentence_pairs, freq_cutoff, res, ints, callVars>>

\* res = tokenize_sents(sentence_pairs, source_dict, target_dict)
CallTokenizeSents ==
    /\ pc = "vocab"
    /\ res' = tokenize_sents(sentence_pairs, source_dict, target_dict)
    /\ ints' = [i \in 1..Len(sentence_pairs) |->
                   SentenceInts(sentence_pairs[i], source_dict, target_dict)]
    /\ pc' = "done"
    /\ UNCHANGED <<sentence_pairs, freq_cutoff, source_dict, target_dict, callVars>>

Next == CallGetTokenToIndex \/ CallTokenizeSents

Spec == Init /\ [][Next]_vars

\* tokenize_sents on a corpus and any two dictionaries of the caller.
InitTokenize ==
    /\ pc = "vocab"
    /\ sentence_pairs \in Corpora
    /\ freq_cutoff = None
    /\ source_dict \in SourceDicts
    /\ target_dict \in TargetDicts
    /\ res = <<>>
    /\ ints = <<>>
    /\ NoCalls

NextTokenize == CallTokenizeSents

SpecTokenize == InitTokenize /\ [][NextTokenize]_vars

\* extract_sentences, one statement group at a time.
Busy(p) == cpc[p] \in {"read", "opened", "written"}

Stepped(p) ==
    /\ p \in calls
    /\ alone' = IF \E q \in calls \ {p} : Busy(q)
                THEN [q \in Calls |-> IF q = p \/ Busy(q) THEN FALSE ELSE alone[q]]
                ELSE alone
    /\ UNCHANGED <<calls, infile, pipeVars>>

\* file = open(filename); s = file.read(); s = s.replace('&', '&amp;')
ReadInput(p) ==
    /\ cpc[p] = "start"
    /\ s' = [s EXCEPT ![p] = EscapeDocument(infile[p])]
    /\ cpc' = [cpc EXCEPT ![p] = "read"]
    /\ Stepped(p)
    /\ UNCHANGED <<new, out>>

\* file = open('new', 'w')
OpenNew(p) ==
    /\ cpc[p] = "read"
    /\ new' = Truncated(new)
    /\ cpc' = [cpc EXCEPT ![p] = "opened"]
    /\ Stepped(p)
    /\ UNCHANGED <<s, out>>

\* file.write(s); file.close()
WriteNew(p) ==
    /\ cpc[p] = "opened"
    /\ new' = Written(new, s[p])
    /\ cpc' = [cpc EXCEPT ![p] = "written"]
    /\ Stepped(p)
    /\ UNCHANGED <<s, out>>

\* tree = ET.parse('new') ... return sentence_pairs, alignments
ParseNew(p) ==
    /\ cpc[p] = "written"
    /\ out' = [out EXCEPT ![p] = ParseAndExtract(new)]
    /\ cpc' = [cpc EXCEPT ![p] = "done"]
    /\ Stepped(p)
    /\ UNCHANGED <<s, new>>

NextExtract ==
    \E p \in Calls : ReadInput(p) \/ OpenNew(p) \/ WriteNew(p) \/ ParseNew(p)

\* One call of extract_sentences on a document.
InitExtract ==
    /\ NoPipeline
    /\ calls = {"A"}
    /\ cpc = [p \in Calls |-> "start"]
    /\ \E doc \in Documents : infile = [p \in Calls |-> IF p = "A" THEN doc ELSE <<>>]
    /\ s = [p \in Calls |-> <<>>]
    /\ new = NoFile
    /\ out = [p \in Calls |-> Returned(<<>>)]
    /\ alone = [p \in Calls |-> TRUE]

SpecExtract == InitExtract /\ [][NextExtract]_vars

\* Two calls of extract_sentences in one working directory, their
\* statements interleaved in any order.
InitConcurrent ==
    /\ NoPipeline
    /\ calls = Calls
    /\ cpc = [p \in Calls |-> "start"]
    /\ infile \in [Calls -> PlainDocuments]
    /\ s = [p \in Calls |-> <<>>]
    /\ new = NoFile
    /\ out = [p \in Calls |-> Returned(<<>>)]
    /\ alone = [p \in Calls |-> TRUE]

NextConcurrent == NextExtract

SpecConcurrent == InitConcurrent /\ [][NextConcurrent]_vars

\* ------------------------------------------------------- what the claims say

\* The tokens of one language of the corpus, sentence after sentence.
RECURSIVE Stream(_, _)
Stream(pairs, side) ==
    IF pairs = <<>> THEN <<>> ELSE Head(pairs)[side] \o Stream(Tail(pairs), side)

Distinct(side) == Range(Stream(sentence_pairs, side))

Frequency(t, side) ==
    Cardinality({j \in 1..Len(Stream(sentence_pairs, side)) :
                    Stream(sentence_pairs, side)[j] = t})

FirstSeen(t, side) ==
    LET st == Stream(sentence_pairs, side)
    IN  CHOOSE j \in 1..Len(st) : st[j] = t /\ \A k \in 1..(j - 1) : st[k] # t

\* t ranks before u: more frequent, or as frequent and seen first.
RanksBefore(t, u, side) ==
    \/ Frequency(t, side) > Frequency(u, side)
    \/ /\ Frequency(t, side) = Frequency(u, side)
       /\ FirstSeen(t, side) < FirstSeen(u, side)

VocabBuilt == pc \in {"vocab", "done"}

Size(dict) == Cardinality(DOMAIN dict)

Dense(dict) ==
    /\ \A t, u \in DOMAIN dict : dict[t] = dict[u] => t = u
    /\ Range(dict) = 0..(Size(dict) - 1)

\* C1: each mapping returned by get_token_to_index, for None and for every
\* positive cutoff, is injective and its indices are exactly 0..size-1.
C1_DenseIndices == VocabBuilt => Dense(source_dict) /\ Dense(target_dict)

\* A cutoff that drops a source token and vocabularies of two tokens or more.
C1_Witness ==
    /\ VocabBuilt
    /\ freq_cutoff # None
    /\ Size(source_dict) >= 2
    /\ Size(source_dict) < Cardinality(Distinct("source"))
    /\ Size(target_dict) >= 2

\* u is beyond the cutoff: freq_cutoff tokens or more rank before it.
Beyond(u, side) ==
    Cardinality({t \in Distinct(side) : RanksBefore(t, u, side)}) >= freq_cutoff[1]

\* C2: with freq_cutoff = k each mapping has min(k, distinct tokens of its
\* language) keys, all of them tokens of that language of the corpus, so
\* that the tokens beyond the cutoff are keys of neither mapping.
C2_CutoffSize ==
    VocabBuilt /\ freq_cutoff # None =>
        /\ Size(source_dict) = Min(freq_cutoff[1], Cardinality(Distinct("source")))
        /\ Size(target_dict) = Min(freq_cutoff[1], Cardinality(Distinct("target")))
        /\ DOMAIN source_dict \subseteq Distinct("source")
        /\ DOMAIN target_dict \subseteq Distinct("target")
        /\ \A u \in Distinct("source") : Beyond(u, "source") => u \notin DOMAIN source_dict
        /\ \A u \in Distinct("target") : Beyond(u, "target") => u \notin DOMAIN target_dict

\* The cutoff bites in the source language and not in the target language.
C2_Witness ==
    /\ VocabBuilt
    /\ freq_cutoff = Some(2)
    /\ Cardinality(Distinct("source")) = 3
    /\ Size(source_dict) = 2
    /\ Cardinality(Distinct("target")) = 1
    /\ Size(target_dict) = 1

Ranked(dict, side) ==
    /\ \A t, u \in DOMAIN dict : dict[t] < dict[u] <=> RanksBefore(t, u, side)
    /\ \A t \in DOMAIN dict : dict[t] = 0 =>
           \A u \in DOMAIN dict : Frequency(t, side) >= Frequency(u, side)
    /\ \A t \in DOMAIN dict : \A u \in Distinct(side) \ DOMAIN dict :
           Frequency(t, side) >= Frequency(u, side)

\* C3: indices follow descending frequency, ties broken by first appearance;
\* index 0 is a most frequent token and no excluded token is more frequent
\* than a retained one.
C3_FrequencyOrder ==
    VocabBuilt => Ranked(source_dict, "source") /\ Ranked(target_dict, "target")

\* Two retained source tokens tie, and a token seen before one of them is
\* less frequent and excluded by the cutoff.
C3_Witness ==
    /\ VocabBuilt
    /\ \E t, u \in DOMAIN source_dict :
           /\ t # u
           /\ Frequency(t, "source") = Frequency(u, "source")
    /\ \E t \in DOMAIN source_dict : \E u \in Distinct("source") \ DOMAIN source_dict :
           /\ FirstSeen(u, "source") < FirstSeen(t, "source")
           /\ Frequency(u, "source") < Frequency(t, "source")

\* The positions of the sentences that tokenize_sents keeps.
RECURSIVE Positions(_, _)
Positions(i, keep) ==
    IF i = 0 THEN <<>>
    ELSE IF i \in keep THEN Append(Positions(i - 1, keep), i) ELSE Positions(i - 1, keep)

BothNonEmpty ==
    {i \in 1..Len(ints) : ints[i].source_ints # <<>> /\ ints[i].target_ints # <<>>}

LastMiss(tokens, dict) ==
    LET misses == {j \in 1..Len(tokens) : tokens[j] \notin DOMAIN dict}
    IN  IF misses = {} THEN 0 ELSE CHOOSE j \in misses : \A k \in misses : k <= j

SuffixIndices(tokens, dict) ==
    [k \in 1..(Len(tokens) - LastMiss(tokens, dict)) |->
        dict[tokens[LastMiss(tokens, dict) + k]]]

SuffixRule(list, tokens, dict) ==
    /\ list = SuffixIndices(tokens, dict)
    /\ list = <<>> <=> (tokens = <<>> \/ tokens[Len(tokens)] \notin DOMAIN dict)

C10_RoundTrip ==
    pc = "done" /\ freq_cutoff = None =>
        LET kept == Positions(Len(sentence_pairs),
                        {i \in 1..Len(sentence_pairs) :
                            /\ sentence_pairs[i].source # <<>>
                            /\ sentence_pairs[i].target # <<>>})
        IN  /\ Distinct("source") \subseteq DOMAIN source_dict
            /\ Distinct("target") \subseteq DOMAIN target_dict
            /\ Len(res) = Len(kept)
            /\ \A k \in 1..Len(res) :
                   LET sentense == sentence_pairs[kept[k]]
                   IN  /\ Len(res[k].source_tokens) = Len(sentense.source)
                       /\ Len(res[k].target_tokens) = Len(sentense.target)
                       /\ \A j \in 1..Len(sentense.source) :
                              /\ res[k].source_tokens[j] = source_dict[sentense.source[j]]
                              /\ res[k].source_tokens[j] \in 0..(Size(source_dict) - 1)
                       /\ \A j \in 1..Len(sentense.target) :
                              /\ res[k].target_tokens[j] = target_dict[sentense.target[j]]
                              /\ res[k].target_tokens[j] \in 0..(Size(target_dict) - 1)

\* The corpus [(a b c, x)] comes back as source_tokens [0, 1, 2].
C10_Witness ==
    /\ pc = "done"
    /\ freq_cutoff = None
    /\ sentence_pairs = <<SentencePair(<<"a", "b", "c">>, <<"x">>)>>
    /\ Len(res) = 1
    /\ res[1].source_tokens = <<0, 1, 2>>

\* A token of an alignment field of the form <integer>-<integer>.
IntDashInt(word) ==
    LET parts == SplitOn(word, "-", <<>>, <<>>)
    IN  Len(parts) = 2 /\ IsInt(parts[1]) /\ IsInt(parts[2])

Malformed(doc) ==
    \E i \in 1..Len(doc) : \E j \in {3, 4} :
        \E k \in 1..Len(Split(doc[i][j])) : ~IntDashInt(Split(doc[i][j])[k])

\* No text, or blanks only.
Blank(text) == \A k \in 1..Len(text) : text[k] \in Whitespace

\* The records the input format assigns to a child element.
TokensOf(text) == Strs(Split(text))

PairsOf(text) ==
    [k \in 1..Len(Split(text)) |->
        LET parts == SplitOn(Split(text)[k], "-", <<>>, <<>>)
        IN  <<IntValue(0, parts[1]), IntValue(0, parts[2])>>]

Finished(p) == p \in calls /\ cpc[p] = "done"

\* C5: for a document whose alignment tokens are all <integer>-<integer>,
\* the call returns two lists as long as the root has children, the i-th
\* SentencePair and the i-th LabeledAlignment built from the i-th child.
C5_OneRecordPerChild ==
    \A p \in Calls :
        Finished(p) /\ ~Malformed(infile[p]) =>
            /\ ~IsError(out[p])
            /\ Len(out[p].value[1]) = Len(infile[p])
            /\ Len(out[p].value[2]) = Len(infile[p])
            /\ \A i \in 1..Len(infile[p]) :
                   /\ out[p].value[1][i] =
                          SentencePair(TokensOf(infile[p][i][1]), TokensOf(infile[p][i][2]))
                   /\ out[p].value[2][i] =
                          LabeledAlignment(PairsOf(infile[p][i][3]), PairsOf(infile[p][i][4]))

\* C6: a token of a sure or possible field that is not <integer>-<integer>
\* makes the call fail, and nothing is returned.
C6_MalformedTokenIsFatal ==
    \A p \in Calls : Finished(p) /\ Malformed(infile[p]) => IsError(out[p])

\* C7: an empty, blank or absent source or target text gives an empty token
\* list, an absent sure or possible text an empty list, and the call
\* succeeds with the other elements extracted as usual.
C7_EmptyTextIsEmptyList ==
    \A p \in Calls :
        Finished(p) /\ ~Malformed(infile[p]) =>
            /\ ~IsError(out[p])
            /\ Len(out[p].value[1]) = Len(infile[p])
            /\ \A i \in 1..Len(infile[p]) :
                   /\ Blank(infile[p][i][1]) => out[p].value[1][i].source = <<>>
                   /\ Blank(infile[p][i][2]) => out[p].value[1][i].target = <<>>
                   /\ infile[p][i][3] = <<>> => out[p].value[2][i].sure = <<>>
                   /\ infile[p][i][4] = <<>> => out[p].value[2][i].possible = <<>>
                   /\ ~Blank(infile[p][i][1]) =>
                          out[p].value[1][i].source = TokensOf(infile[p][i][1])

\* What a call on this document returns when it runs by itself.
RecordsOf(doc) ==
    ParseAndExtract([size |-> DocumentSize(EscapeDocument(doc)),
                     holds |-> "document",
                     content |-> EscapeDocument(doc)])

\* C9: a call that no other call overlaps returns the records of its own
\* input; a call that is overlapped returns its own records, the other
\* call's records, or fails to parse the file 'new'.
C9_OwnRecordsWhenAlone ==
    \A p \in Calls :
        Finished(p) =>
            /\ alone[p] => out[p] = RecordsOf(infile[p])
            /\ \/ \E q \in Calls : out[p] = RecordsOf(infile[q])
               \/ out[p] = Raised("ParseError")

\* A writes, B writes, A parses: A returns the records of B's input, which
\* are not those of its own.
C9_Witness ==
    \E p, q \in Calls :
        /\ p # q
        /\ Finished(p)
        /\ cpc[q] = "written"
        /\ ~alone[p]
        /\ out[p] = RecordsOf(infile[q])
        /\ out[p] # RecordsOf(infile[p])

====
